---- MODULE Spec2Model ----
(***************************************************************************)
(* photon-controller-cli, photon/command/clusters.go: waitForCluster, the  *)
(* readiness waiter of the cluster commands, and the progress reporter     *)
(* goroutine it runs beside its polling loop.                              *)
(*                                                                         *)
(* Two units run per wait call: the polling loop (foreground, variable pc) *)
(* and the reporter goroutine (background, variable rpc).  They share the  *)
(* package-level flag endAnimation and the WaitGroup counter wg.  Every    *)
(* action is one step of one unit, so TLC explores every interleaving.     *)
(* endAnimation is a single Go bool read and written without               *)
(* synchronisation; the builds of the Go toolchain load and store it with  *)
(* plain word accesses, and a single location is coherent, so the          *)
(* outcomes are exactly the interleavings of the reads and writes.         *)
(*                                                                         *)
(* Time is counted in seconds.  It passes while a fetch is in flight and   *)
(* while the loop sleeps; the other statements take no time.               *)
(***************************************************************************)
EXTENDS Integers, Sequences, FiniteSets, TLC

(* ------------------------------ bounds --------------------------------- *)

\* Fetches one wait call may issue before the model stops following it.
MaxFetches == 5

\* Wait calls executed one after another in the same process.
MaxCalls == 2

\* Fetches one task poll may issue before the model stops following it.
MaxTaskFetches == 4

(* --------------------------- policy constants -------------------------- *)

Second == 1

Minute == 60 * Second

taskPollTimeout == 60 * Minute

taskPollDelay == 2 * Second

taskRetryCount == 3

(* ------------------------------- strings ------------------------------- *)

\* A Go string is the sequence of its characters.
Lower == <<"a","b","c","d","e","f","g","h","i","j","k","l","m",
           "n","o","p","q","r","s","t","u","v","w","x","y","z">>

Upper == <<"A","B","C","D","E","F","G","H","I","J","K","L","M",
           "N","O","P","Q","R","S","T","U","V","W","X","Y","Z">>

UpperChar(c) ==
    IF \E i \in DOMAIN Lower : Lower[i] = c
    THEN Upper[CHOOSE i \in DOMAIN Lower : Lower[i] = c]
    ELSE c

\* A conversion that leaves the string as it is.
ToUpperIdentity(s) == s

\* strings.ToUpper
ToUpper(s) == [i \in DOMAIN s |-> UpperChar(s[i])]

sCREATING == <<"C","R","E","A","T","I","N","G">>
sREADY    == <<"R","E","A","D","Y">>
sReady    == <<"R","e","a","d","y">>
sERROR    == <<"E","R","R","O","R">>
serror    == <<"e","r","r","o","r">>

\* The states the remote system reports in the model.
ClusterStates == {sCREATING, sREADY, sReady, sERROR, serror}

\* The cluster IDs the commands pass.
ClusterIDs == {"c1", "c2"}

\* The nil pointer and the nil error.
NIL == [nil |-> TRUE]

(* ------------------------- the remote client --------------------------- *)

\* What client.Esxclient.Clusters.Get(id) can hand back: a cluster and no
\* error, an error and no cluster (the request failed), or an error beside a
\* cluster (the body was received but could not be decoded in full).
GetResults(i) ==
         { [failed |-> FALSE, res |-> [ID |-> i, State |-> s]] : s \in ClusterStates }
    \cup { [failed |-> TRUE,  res |-> NIL] }
    \cup { [failed |-> TRUE,  res |-> [ID |-> i, State |-> s]] : s \in ClusterStates }

\* Seconds a fetch can take.
FetchDurations == {0, 1798, 1800}

(* ------------------------------- errors -------------------------------- *)

\* The error of the n-th fetch of a call.
FetchError(n) == [kind |-> "fetch", n |-> n]

\* fmt.Errorf("Cluster %s entered ERROR state", id)
StateError(i) == [kind |-> "state", id |-> i]

\* fmt.Errorf("Timed out while waiting for cluster to enter READY state")
TimeoutError == [kind |-> "timeout"]

(* -------------------------------- state -------------------------------- *)

VARIABLES
    calls,          \* wait calls started so far in this process
    id,             \* the id parameter of the current call
    pc,             \* position of the polling loop
    path,           \* the exit path the call has taken
    elapsed,        \* time.Since(start)
    numErr,         \* failed fetches counted by the call
    cluster,        \* the named result cluster
    err,            \* the named result err
    endAnimation,   \* the package-level stop flag
    wg,             \* the WaitGroup counter
    rpc,            \* position of the reporter goroutine
    hist,           \* the fetches of the current call, in order
    stopSets,       \* times the current call has set endAnimation
    kind,           \* the cluster command the process runs
    cpc,            \* position of the command function
    target,         \* the cluster the command works on
    wait_for_ready, \* c.IsSet("wait-for-ready")
    answer,         \* what confirmed(...) returned
    cerr,           \* the error the command function returns
    failedAt,       \* the step of the command that failed
    remote,         \* the requests the command has sent to the remote system
    task,           \* the task poll of the command
    exitCode        \* how the process ended

\* The state of one waitForCluster call and its reporter.
waitVars == <<calls, id, pc, path, elapsed, numErr, cluster, err,
              endAnimation, wg, rpc, hist, stopSets>>

\* The state of the command around it.
cmdVars == <<kind, cpc, target, wait_for_ready, answer, cerr, failedAt,
             remote, task, exitCode>>

vars == <<waitVars, cmdVars>>

\* No task poll is running.
TaskOff == [pc |-> "off", numErr |-> 0, hist |-> <<>>, delays |-> 0, res |-> NIL]

\* The command variables of a process that runs no cluster command.
NoCommand ==
    /\ kind = "none"
    /\ cpc = "off"
    /\ target = ""
    /\ wait_for_ready = FALSE
    /\ answer = "unasked"
    /\ cerr = NIL
    /\ failedAt = "none"
    /\ remote = {}
    /\ task = TaskOff
    /\ exitCode = -1

\* No wait call has been made.
WaitInit ==
    /\ calls = 0
    /\ id = ""
    /\ pc = "idle"
    /\ path = "none"
    /\ elapsed = 0
    /\ numErr = 0
    /\ cluster = NIL
    /\ err = NIL
    /\ endAnimation = FALSE
    /\ wg = 0
    /\ rpc = "none"
    /\ hist = <<>>
    /\ stopSets = 0

\* A process whose caller makes wait calls one after another.
Init == WaitInit /\ NoCommand

(* --------------------------- the polling loop --------------------------- *)

\* The process is alive: a nil dereference ends it, goroutines included.
Alive == pc # "panicked"

\* Entry of waitForCluster up to the go statement: start is read, the
\* results are zero, the WaitGroup counts one and the goroutine exists.
waitForClusterEntry(i) ==
    /\ pc \in {"idle", "returned"}
    /\ calls < MaxCalls
    /\ calls' = calls + 1
    /\ id' = i
    /\ elapsed' = 0
    /\ numErr' = 0
    /\ cluster' = NIL
    /\ err' = NIL
    /\ wg' = wg + 1
    /\ rpc' = "entry"
    /\ pc' = "loop"
    /\ path' = "none"
    /\ hist' = <<>>
    /\ stopSets' = 0
    /\ UNCHANGED endAnimation

\* A loop condition that also admits the instant of the timeout.
LoopCondInclusive(e) == e <= taskPollTimeout

\* time.Since(start) < taskPollTimeout
LoopCond(e) == e < taskPollTimeout

\* The for statement's test; a false test leaves the loop for the timeout exit.
LoopCheck ==
    /\ pc = "loop"
    /\ IF LoopCond(elapsed)
       THEN pc' = "fetch" /\ path' = path
       ELSE pc' = "stop" /\ path' = "timeout"
    /\ UNCHANGED <<calls, id, elapsed, numErr, cluster, err,
                   endAnimation, wg, rpc, hist, stopSets>>

\* A query that asks for a cluster other than the one the call was given.
FetchedIDOther(i) == CHOOSE j \in ClusterIDs : j # i

\* The argument of Clusters.Get: the call's own parameter id.
FetchedID(i) == i

\* cluster, err = client.Esxclient.Clusters.Get(id)
ClustersGet(r, d) ==
    /\ pc = "fetch"
    /\ Len(hist) < MaxFetches
    /\ hist' = Append(hist, [failed |-> r.failed, res |-> r.res,
                             at |-> elapsed, done |-> elapsed + d,
                             id |-> FetchedID(id)])
    /\ cluster' = r.res
    /\ err' = IF r.failed THEN FetchError(Len(hist) + 1) ELSE NIL
    /\ elapsed' = elapsed + d
    /\ pc' = "checkErr"
    /\ UNCHANGED <<calls, id, path, numErr, endAnimation, wg, rpc, stopSets>>

\* A budget that is spent one failure early.
BudgetExceededAt(n) == n >= taskRetryCount

\* numErr > taskRetryCount
BudgetExceeded(n) == n > taskRetryCount

\* if err != nil { numErr++; if numErr > taskRetryCount { ... } }
CheckErr ==
    /\ pc = "checkErr"
    /\ IF err # NIL
       THEN /\ numErr' = numErr + 1
            /\ IF BudgetExceeded(numErr + 1)
               THEN pc' = "stop" /\ path' = "budget"
               ELSE pc' = "switch" /\ path' = path
       ELSE /\ numErr' = numErr
            /\ pc' = "switch" /\ path' = path
    /\ UNCHANGED <<calls, id, elapsed, cluster, err,
                   endAnimation, wg, rpc, hist, stopSets>>

\* A switch whose ERROR case is missing.
SwitchCaseNoError(s) ==
    IF ToUpper(s) = sREADY THEN "ready" ELSE "default"

\* switch strings.ToUpper(cluster.State) { case "ERROR": case "READY": }
SwitchCase(s) ==
    IF ToUpper(s) = sERROR THEN "error"
    ELSE IF ToUpper(s) = sREADY THEN "ready"
    ELSE "default"

\* The switch statement.  cluster.State is read whatever err was: with no
\* cluster the read is a nil pointer dereference and the process panics.
SwitchState ==
    /\ pc = "switch"
    /\ IF cluster = NIL
       THEN pc' = "panicked" /\ path' = path
       ELSE IF SwitchCase(cluster.State) = "default"
            THEN pc' = "sleep" /\ path' = path
            ELSE pc' = "stop" /\ path' = SwitchCase(cluster.State)
    /\ UNCHANGED <<calls, id, elapsed, numErr, cluster, err,
                   endAnimation, wg, rpc, hist, stopSets>>

\* A sleep that returns at once.
AfterSleepNone(e) == e

\* The elapsed time after time.Sleep(taskPollDelay).
AfterSleep(e) == e + taskPollDelay

\* time.Sleep(taskPollDelay)
Sleep ==
    /\ pc = "sleep"
    /\ elapsed' = AfterSleep(elapsed)
    /\ pc' = "loop"
    /\ UNCHANGED <<calls, id, path, numErr, cluster, err,
                   endAnimation, wg, rpc, hist, stopSets>>

\* Exit paths of a call that forgets the flag when it times out.
StopPathsNoTimeout == {"budget", "error", "ready"}

\* The exit paths that set the flag before they wait.
StopPaths == {"budget", "error", "ready", "timeout"}

\* endAnimation = true, on the exit path taken
SetEndAnimation ==
    /\ pc = "stop"
    /\ IF path \in StopPaths
       THEN endAnimation' = TRUE /\ stopSets' = stopSets + 1
       ELSE UNCHANGED <<endAnimation, stopSets>>
    /\ pc' = "join"
    /\ UNCHANGED <<calls, id, path, elapsed, numErr, cluster, err,
                   wg, rpc, hist>>

\* A Wait that returns at once.
WaitDoneNoBlock(n) == TRUE

\* wg.Wait() returns when the counter is zero.
WaitDone(n) == n = 0

\* An exit that leaves err as the last fetch set it on every path.
ExitErrKeep(p, e, i) == e

\* The error the exit path assigns after the join; the READY and the budget
\* paths return err as the last fetch left it.
ExitErr(p, e, i) ==
    CASE p = "error"   -> StateError(i)
      [] p = "timeout" -> TimeoutError
      [] OTHER         -> e

\* wg.Wait(), the assignment of err where there is one, and return
WgWaitReturn ==
    /\ pc = "join"
    /\ WaitDone(wg)
    /\ err' = ExitErr(path, err, id)
    /\ pc' = "returned"
    /\ UNCHANGED <<calls, id, path, elapsed, numErr, cluster,
                   endAnimation, wg, rpc, hist, stopSets>>

(* ----------------------------- the reporter ----------------------------- *)

\* A reporter that leaves the flag as it finds it.
ResetKeep(f) == f

\* The flag after the reset that opens a wait call.
ResetFlag(f) == FALSE

\* displayTaskProgress(start) begins: the stop flag is reset.
displayTaskProgress ==
    /\ Alive
    /\ rpc = "entry"
    /\ endAnimation' = ResetFlag(endAnimation)
    /\ rpc' = "test"
    /\ UNCHANGED <<calls, id, pc, path, elapsed, numErr, cluster, err,
                   wg, hist, stopSets>>

\* The reporter reads the flag: set, it leaves its loop; unset, it renders.
ReporterTest ==
    /\ Alive
    /\ rpc = "test"
    /\ rpc' = IF endAnimation THEN "exit" ELSE "tick"
    /\ UNCHANGED <<calls, id, pc, path, elapsed, numErr, cluster, err,
                   endAnimation, wg, hist, stopSets>>

\* One rendering of the indicator and the sleep of the tick interval.
ReporterTick ==
    /\ Alive
    /\ rpc = "tick"
    /\ rpc' = "test"
    /\ UNCHANGED <<calls, id, pc, path, elapsed, numErr, cluster, err,
                   endAnimation, wg, hist, stopSets>>

\* defer wg.Done(): runs when displayTaskProgress has returned.
wgDone ==
    /\ Alive
    /\ rpc = "exit"
    /\ wg' = wg - 1
    /\ rpc' = "done"
    /\ UNCHANGED <<calls, id, pc, path, elapsed, numErr, cluster, err,
                   endAnimation, hist, stopSets>>

(* ----------------------------- the commands ----------------------------- *)

\* The cluster commands that change the remote system.
CommandKinds == {"create", "resize", "delete"}

\* The steps of a command function up to its confirmation, in source order.
\* createCluster resolves the tenant and the project, two queries to the
\* remote system, before it validates its input; resizeCluster and
\* deleteCluster validate before they create the client.
Order(k) ==
    IF k = "create"
    THEN <<"args", "client", "tenant", "project", "validate", "confirm">>
    ELSE <<"args", "validate", "client", "confirm">>

\* The step that follows step st of command k.
StepAfter(k, st) ==
    LET o == Order(k)
        n == CHOOSE j \in DOMAIN o : o[j] = st
    IN  o[n + 1]

\* The input errors each command tests for.
ValidationErrors(k) ==
    CASE k = "create" -> {"worker count", "cluster name and type",
                          "DNS, gateway, and netmask", "ssh key",
                          "cluster type"}
      [] k = "resize" -> {"cluster ID and worker count"}
      [] OTHER        -> {"cluster ID"}

\* The request each command submits.
SubmitOp(k) ==
    CASE k = "create" -> "CreateCluster"
      [] k = "resize" -> "Resize"
      [] OTHER        -> "Delete"

\* The error of a failed step.
StepError(st, what) == [kind |-> st, what |-> what]

\* A command that returns the error of every failed step.
ReturnedErrAll(k, st, e) == e

\* What the command function returns when step st failed with e:
\* deleteCluster answers a failed checkArgNum with return nil.
ReturnedErr(k, st, e) ==
    IF k = "delete" /\ st = "args" THEN NIL ELSE e

\* The command function returns e for the failed step st.
Fail(st, e) ==
    /\ failedAt' = st
    /\ cerr' = ReturnedErr(kind, st, e)
    /\ cpc' = "done"

\* The cli framework calls the Action of one cluster subcommand.
RunCommand(k, w) ==
    /\ cpc = "fresh"
    /\ kind' = k
    /\ wait_for_ready' = (w /\ k # "delete")
    /\ cpc' = "args"
    /\ UNCHANGED <<target, answer, cerr, failedAt, remote, task, exitCode>>
    /\ UNCHANGED waitVars

\* err := checkArgNum(c.Args(), n, usage); if err != nil { return ... }
checkArgNum(ok) ==
    /\ cpc = "args"
    /\ IF ok
       THEN cpc' = StepAfter(kind, "args") /\ UNCHANGED <<cerr, failedAt>>
       ELSE Fail("args", StepError("args", "argument count"))
    /\ UNCHANGED <<kind, target, wait_for_ready, answer, remote, task, exitCode>>
    /\ UNCHANGED waitVars

\* The tests of the command's input, each returning fmt.Errorf(...).
Validate(v) ==
    /\ cpc = "validate"
    /\ IF v = "ok"
       THEN cpc' = StepAfter(kind, "validate") /\ UNCHANGED <<cerr, failedAt>>
       ELSE Fail("validate", StepError("validate", v))
    /\ UNCHANGED <<kind, target, wait_for_ready, answer, remote, task, exitCode>>
    /\ UNCHANGED waitVars

\* client.Esxclient, err = client.GetClient(...); if err != nil { return err }
GetClient(ok) ==
    /\ cpc = "client"
    /\ IF ok
       THEN cpc' = StepAfter(kind, "client") /\ UNCHANGED <<cerr, failedAt>>
       ELSE Fail("client", StepError("client", "no client"))
    /\ UNCHANGED <<kind, target, wait_for_ready, answer, remote, task, exitCode>>
    /\ UNCHANGED waitVars

\* tenant, err := verifyTenant(tenantName): the tenant is looked up remotely.
verifyTenant(ok) ==
    /\ cpc = "tenant"
    /\ remote' = remote \cup {"getTenant"}
    /\ IF ok
       THEN cpc' = StepAfter(kind, "tenant") /\ UNCHANGED <<cerr, failedAt>>
       ELSE Fail("tenant", StepError("tenant", "no tenant"))
    /\ UNCHANGED <<kind, target, wait_for_ready, answer, task, exitCode>>
    /\ UNCHANGED waitVars

\* project, err := verifyProject(tenant.ID, projectName): a remote lookup too.
verifyProject(ok) ==
    /\ cpc = "project"
    /\ remote' = remote \cup {"getProject"}
    /\ IF ok
       THEN cpc' = StepAfter(kind, "project") /\ UNCHANGED <<cerr, failedAt>>
       ELSE Fail("project", StepError("project", "no project"))
    /\ UNCHANGED <<kind, target, wait_for_ready, answer, task, exitCode>>
    /\ UNCHANGED waitVars

\* A command that goes on whatever the user answered.
ProceedsAlways(b) == TRUE

\* if confirmed(utils.IsNonInteractive(c)) { ... } else { "Cancelled" }
Proceeds(b) == b

\* The confirmation: declined, the command prints Cancelled and returns nil.
confirmed(b) ==
    /\ cpc = "confirm"
    /\ answer' = IF b THEN "yes" ELSE "no"
    /\ IF Proceeds(b)
       THEN cpc' = "submit" /\ UNCHANGED cerr
       ELSE cpc' = "done" /\ cerr' = NIL
    /\ UNCHANGED <<kind, target, wait_for_ready, failedAt, remote, task, exitCode>>
    /\ UNCHANGED waitVars

\* The task poll as waitOnTaskOperation starts it.
TaskFresh ==
    [pc |-> "fetch", numErr |-> 0, hist |-> <<>>, delays |-> 0, res |-> NIL]

\* Projects.CreateCluster / Clusters.Resize / Clusters.Delete: the request is
\* sent; accepted, a task comes back and the task poll begins.  For create
\* the cluster of the task (createTask.Entity.ID) is chosen by the remote
\* system, for resize and delete it is the command's argument.
Submit(ok, i) ==
    /\ cpc = "submit"
    /\ remote' = remote \cup {SubmitOp(kind)}
    /\ target' = i
    /\ IF ok
       THEN cpc' = "task" /\ task' = TaskFresh /\ UNCHANGED <<cerr, failedAt>>
       ELSE Fail("submit", StepError("submit", "rejected")) /\ UNCHANGED task
    /\ UNCHANGED <<kind, wait_for_ready, answer, exitCode>>
    /\ UNCHANGED waitVars

\* The task states the remote system reports.
TaskStates == {"QUEUED", "STARTED", "COMPLETED", "ERROR"}

\* What a task fetch can hand back: a state, or a failure of the fetch.
TaskResults == TaskStates \cup {"FAILED"}

\* The task the poll is about.
TaskID == "t1"

\* The error that names the task and its failure state.
TaskError(t, st) == [kind |-> "task", task |-> t, state |-> st]

\* A poll that knows COMPLETED as its only terminal state.
TaskOutcomeNoError(r, n) ==
    CASE r = "COMPLETED" -> "ok"
      [] OTHER           -> "again"

\* What the task poll does with the n-th result r, n counting failed fetches:
\* it ends on COMPLETED, on ERROR and on the failure that exceeds the budget.
TaskOutcome(r, n) ==
    CASE r = "FAILED" /\ n > taskRetryCount -> "abort"
      [] r = "COMPLETED"                    -> "ok"
      [] r = "ERROR"                        -> "error"
      [] OTHER                              -> "again"

\* One fetch of the task's status and the poll's reaction to it; res is the
\* error the poll returns, nil when the task completed.
TaskGet(r) ==
    /\ cpc = "task"
    /\ task.pc = "fetch"
    /\ Len(task.hist) < MaxTaskFetches
    /\ remote' = remote \cup {"getTask"}
    /\ LET n == task.numErr + (IF r = "FAILED" THEN 1 ELSE 0)
           o == TaskOutcome(r, n)
       IN  task' = [pc     |-> IF o = "again" THEN "delay" ELSE "done",
                    numErr |-> n,
                    hist   |-> Append(task.hist, r),
                    delays |-> task.delays,
                    res    |-> CASE o = "error" -> TaskError(TaskID, r)
                                 [] o = "abort" -> StepError("task", "fetch failed")
                                 [] OTHER       -> NIL]
    /\ UNCHANGED <<kind, cpc, target, wait_for_ready, answer, cerr, failedAt, exitCode>>
    /\ UNCHANGED waitVars

\* The fixed delay between two task fetches.
TaskDelay ==
    /\ cpc = "task"
    /\ task.pc = "delay"
    /\ task' = [task EXCEPT !.pc = "fetch", !.delays = @ + 1]
    /\ UNCHANGED <<kind, cpc, target, wait_for_ready, answer, cerr, failedAt,
                   remote, exitCode>>
    /\ UNCHANGED waitVars

\* A command that waits for readiness whether or not it was asked to.
StartsWaitAlways(k, w) == k # "delete"

\* if wait_for_ready { cluster, err := waitForCluster(...) }
StartsWait(k, w) == k # "delete" /\ w

\* _, err = waitOnTaskOperation(task.ID, c) has returned: on an error the
\* command returns it; otherwise it goes on to the wait, or returns nil.
AfterTask ==
    /\ cpc = "task"
    /\ task.pc = "done"
    /\ task' = [pc |-> "returned", numErr |-> 0, hist |-> <<>>, delays |-> 0,
                res |-> task.res]
    /\ IF task.res # NIL
       THEN Fail("task", task.res)
       ELSE /\ UNCHANGED failedAt
            /\ IF StartsWait(kind, wait_for_ready)
               THEN cpc' = "wait" /\ UNCHANGED cerr
               ELSE cpc' = "done" /\ cerr' = NIL
    /\ UNCHANGED <<kind, target, wait_for_ready, answer, remote, exitCode>>
    /\ UNCHANGED waitVars

\* cluster, err := waitForCluster(id): the call is made.
CallWaitForCluster ==
    /\ cpc = "wait"
    /\ waitForClusterEntry(target)
    /\ cpc' = "waiting"
    /\ UNCHANGED <<kind, target, wait_for_ready, answer, cerr, failedAt,
                   remote, task, exitCode>>

\* The fetch of a wait call made by a command is a request to the remote system.
CommandClustersGet(r, d) ==
    /\ cpc = "waiting"
    /\ ClustersGet(r, d)
    /\ remote' = remote \cup {"getCluster"}
    /\ UNCHANGED <<kind, cpc, target, wait_for_ready, answer, cerr, failedAt,
                   task, exitCode>>

\* waitForCluster has returned: if err != nil { return err }; the cluster is
\* printed and the command returns nil.
AfterWait ==
    /\ cpc = "waiting"
    /\ pc = "returned"
    /\ IF err # NIL
       THEN Fail("wait", err)
       ELSE cpc' = "done" /\ cerr' = NIL /\ UNCHANGED failedAt
    /\ UNCHANGED <<kind, target, wait_for_ready, answer, remote, task, exitCode>>
    /\ UNCHANGED waitVars

\* The Action of the subcommand: if err != nil { log.Fatal(err) }.
CommandAction ==
    /\ cpc = "done"
    /\ cpc' = "exited"
    /\ exitCode' = IF cerr # NIL THEN 1 ELSE 0
    /\ UNCHANGED <<kind, target, wait_for_ready, answer, cerr, failedAt,
                   remote, task>>
    /\ UNCHANGED waitVars

(* --------------------------- specifications ---------------------------- *)

WaiterNext ==
    \/ \E i \in ClusterIDs : waitForClusterEntry(i)
    \/ LoopCheck
    \/ \E r \in GetResults(id), d \in FetchDurations : ClustersGet(r, d)
    \/ CheckErr
    \/ SwitchState
    \/ Sleep
    \/ SetEndAnimation
    \/ WgWaitReturn

ReporterNext ==
    \/ displayTaskProgress
    \/ ReporterTest
    \/ ReporterTick
    \/ wgDone

\* The steps of a process whose caller makes wait calls one after another.
Next ==
    \/ \E i \in ClusterIDs : waitForClusterEntry(i) /\ UNCHANGED cmdVars
    \/ LoopCheck /\ UNCHANGED cmdVars
    \/ \E r \in GetResults(id), d \in FetchDurations :
           ClustersGet(r, d) /\ UNCHANGED cmdVars
    \/ CheckErr /\ UNCHANGED cmdVars
    \/ SwitchState /\ UNCHANGED cmdVars
    \/ Sleep /\ UNCHANGED cmdVars
    \/ SetEndAnimation /\ UNCHANGED cmdVars
    \/ WgWaitReturn /\ UNCHANGED cmdVars
    \/ displayTaskProgress /\ UNCHANGED cmdVars
    \/ ReporterTest /\ UNCHANGED cmdVars
    \/ ReporterTick /\ UNCHANGED cmdVars
    \/ wgDone /\ UNCHANGED cmdVars

Spec == Init /\ [][Next]_vars

\* The Go scheduler runs every runnable goroutine again and again.
FairSpec ==
    /\ Spec
    /\ WF_vars(WaiterNext /\ UNCHANGED cmdVars)
    /\ WF_vars(ReporterNext /\ UNCHANGED cmdVars)

\* A process that is about to run one cluster command.
CommandInit ==
    /\ WaitInit
    /\ kind = "none"
    /\ cpc = "fresh"
    /\ target = ""
    /\ wait_for_ready = FALSE
    /\ answer = "unasked"
    /\ cerr = NIL
    /\ failedAt = "none"
    /\ remote = {}
    /\ task = TaskOff
    /\ exitCode = -1

\* The steps of a process that runs one cluster command.
CommandNext ==
    \/ \E k \in CommandKinds, w \in BOOLEAN : RunCommand(k, w)
    \/ \E ok \in BOOLEAN : checkArgNum(ok)
    \/ \E v \in ValidationErrors(kind) \cup {"ok"} : Validate(v)
    \/ \E ok \in BOOLEAN : GetClient(ok)
    \/ \E ok \in BOOLEAN : verifyTenant(ok)
    \/ \E ok \in BOOLEAN : verifyProject(ok)
    \/ \E b \in BOOLEAN : confirmed(b)
    \/ \E ok \in BOOLEAN, i \in ClusterIDs : Submit(ok, i)
    \/ \E r \in TaskResults : TaskGet(r)
    \/ TaskDelay
    \/ AfterTask
    \/ CallWaitForCluster
    \/ LoopCheck /\ UNCHANGED cmdVars
    \/ \E r \in GetResults(id), d \in FetchDurations : CommandClustersGet(r, d)
    \/ CheckErr /\ UNCHANGED cmdVars
    \/ SwitchState /\ UNCHANGED cmdVars
    \/ Sleep /\ UNCHANGED cmdVars
    \/ SetEndAnimation /\ UNCHANGED cmdVars
    \/ WgWaitReturn /\ UNCHANGED cmdVars
    \/ displayTaskProgress /\ UNCHANGED cmdVars
    \/ ReporterTest /\ UNCHANGED cmdVars
    \/ ReporterTick /\ UNCHANGED cmdVars
    \/ wgDone /\ UNCHANGED cmdVars
    \/ AfterWait
    \/ CommandAction

CommandSpec == CommandInit /\ [][CommandNext]_vars

(* ------------------------ vocabulary of the claims ---------------------- *)

Last(h) == h[Len(h)]

AllFailed(h) == \A i \in DOMAIN h : h[i].failed

\* The call is over: it has returned, or the process has died in it.
CallOver == pc \in {"returned", "panicked"}

\* The spellings of the two terminal states, written out.
ReadySpellings == {sREADY, sReady}

ErrorSpellings == {sERROR, serror}

\* The last fetch succeeded and reported READY in some spelling.
LastOkReady ==
    /\ hist # <<>>
    /\ ~Last(hist).failed
    /\ Last(hist).res.State \in ReadySpellings

\* The last fetch succeeded and reported ERROR in some spelling.
LastOkError ==
    /\ hist # <<>>
    /\ ~Last(hist).failed
    /\ Last(hist).res.State \in ErrorSpellings

\* A fetch delivered a cluster whose state is READY or ERROR.
Terminal(f) ==
    f.res # NIL /\ f.res.State \in ReadySpellings \cup ErrorSpellings

\* Positions of the polling loop between a fetch and the return it leads to.
AfterFetch == {"checkErr", "switch", "stop", "join", "returned"}

(* -------------------------------- claims -------------------------------- *)

\* C1: whenever waitForCluster has returned, on whichever of its four exit
\* paths, the reporter goroutine has terminated and the WaitGroup is at zero.
C1_ReporterStoppedAtReturn ==
    pc = "returned" => (rpc = "done" /\ wg = 0 /\ path \in StopPaths)

\* C1 witness: a call has returned on the budget-exceeded path.
C1_Witness ==
    pc = "returned" /\ path = "budget" /\ rpc = "done"

\* C2: the waiter never reads the State of an absent cluster: the position
\* "panicked" is entered only by evaluating cluster.State with cluster nil.
C2_NeverReadsAbsentState ==
    ~(pc = "switch" /\ cluster = NIL) /\ pc # "panicked"

\* C3: a call given at most 3 failed fetches and then a successful fetch
\* reporting READY, all within the timeout, returns that cluster and no
\* error; so it does not end while the fetches so far are at most 3 failures.
C3_RetriesThenReadySucceeds ==
    /\ (/\ hist # <<>>
        /\ AllFailed(hist)
        /\ Len(hist) <= taskRetryCount
        /\ elapsed < taskPollTimeout)
       => (~CallOver /\ path = "none")
    /\ (/\ LastOkReady
        /\ AllFailed(SubSeq(hist, 1, Len(hist) - 1))
        /\ Len(hist) - 1 <= taskRetryCount
        /\ elapsed < taskPollTimeout
        /\ CallOver)
       => (pc = "returned" /\ err = NIL /\ cluster = Last(hist).res)

\* C4: a call whose fetches fail one after another can end, within the
\* timeout, only by returning the error of the fetch that exceeded the budget
\* of 3, and it issues no fetch after that one.
C4_FourErrorsAbort ==
    /\ (/\ hist # <<>>
        /\ AllFailed(hist)
        /\ elapsed < taskPollTimeout
        /\ CallOver)
       => (/\ pc = "returned"
           /\ Len(hist) = taskRetryCount + 1
           /\ err = FetchError(Len(hist)))
    /\ (AllFailed(hist) /\ Len(hist) > taskRetryCount)
       => (Len(hist) = taskRetryCount + 1 /\ pc \in AfterFetch)

\* C5: after a successful fetch that reports READY in any spelling the waiter
\* goes straight to its return: no sleep and no fetch follow, and it returns
\* the fetched cluster with no error.
C5_ReadyReturnsSameIteration ==
    LastOkReady =>
        /\ pc \in AfterFetch
        /\ elapsed = Last(hist).done
        /\ pc \in {"stop", "join", "returned"} => path = "ready"
        /\ pc = "returned" => (cluster = Last(hist).res /\ err = NIL)

\* C5 witness: a call has returned after a fetch that reported "Ready".
C5_Witness ==
    pc = "returned" /\ LastOkReady /\ Last(hist).res.State = sReady

\* C6: after a successful fetch that reports ERROR in any spelling the waiter
\* fetches no more and returns an error that names the id it was called with.
C6_ErrorReturnsNamedError ==
    LastOkError =>
        /\ pc \in AfterFetch
        /\ pc \in {"stop", "join", "returned"} => path = "error"
        /\ pc = "returned" => err = StateError(id)

\* C6 witness: a call for c2 has returned after a fetch that reported "error".
C6_Witness ==
    /\ pc = "returned" /\ LastOkError /\ Last(hist).res.State = serror
    /\ id = "c2" /\ err.id = "c2"

\* C7 as stated: a call in which no fetch delivered READY or ERROR, and in
\* which the budget was not exceeded, before the elapsed time reached the
\* timeout returns the timeout error.
C7_TimeoutWhenNothingSeenInTime ==
    (/\ pc = "returned"
     /\ \A i \in DOMAIN hist :
            hist[i].done < taskPollTimeout => ~Terminal(hist[i])
     /\ Cardinality({i \in DOMAIN hist :
            hist[i].failed /\ hist[i].done < taskPollTimeout}) <= taskRetryCount)
    => err = TimeoutError

\* C7 amended: no fetch is issued at or beyond the timeout; the timeout exit
\* is taken only when the loop test reads an elapsed time at or beyond the
\* timeout and it returns the timeout error; every other return follows a
\* fetch that delivered READY or ERROR or exceeded the budget, also when that
\* fetch was issued before the timeout and answered after it.
C7_TimeoutAtLoopTest ==
    /\ \A i \in DOMAIN hist : hist[i].at < taskPollTimeout
    /\ path = "timeout" =>
           (elapsed >= taskPollTimeout /\ pc \in {"stop", "join", "returned"})
    /\ (pc = "returned" /\ path = "timeout") => err = TimeoutError
    /\ (pc = "returned" /\ path # "timeout") =>
           (hist # <<>> /\ (Terminal(Last(hist)) \/ BudgetExceeded(numErr)))
    /\ (pc \in {"loop", "fetch"} /\ elapsed >= taskPollTimeout) => pc = "loop"

\* C7 witness: a call has returned the timeout error with the elapsed time
\* exactly at the timeout.
C7_Witness ==
    /\ pc = "returned" /\ path = "timeout" /\ err = TimeoutError
    /\ elapsed = taskPollTimeout

\* C8: a call sets the stop flag exactly once: not before it has taken an
\* exit path, once on that path before it waits, and never again.
C8_StopSetExactlyOnce ==
    /\ stopSets <= 1
    /\ pc \in {"join", "returned"} => stopSets = 1
    /\ pc \in {"loop", "fetch", "checkErr", "switch", "sleep", "stop"} => stopSets = 0

\* C8 witness: a call has returned on the timeout path having set the flag once.
C8_Witness ==
    pc = "returned" /\ path = "timeout" /\ stopSets = 1 /\ endAnimation

C11_BudgetCountsConsecutive ==
    path = "budget" =>
        /\ Len(hist) > taskRetryCount
        /\ \A i \in (Len(hist) - taskRetryCount)..Len(hist) : hist[i].failed

C17_NilErrorOnlyOnReady ==
    pc = "returned" =>
        /\ err = NIL =>
               (LastOkReady /\ cluster = Last(hist).res /\ path = "ready")
        /\ path \in {"error", "budget", "timeout"} => err # NIL

\* C17 witness: a call has returned a cluster and no error after two fetches.
C17_Witness ==
    /\ pc = "returned" /\ path = "ready" /\ err = NIL /\ cluster # NIL
    /\ Len(hist) = 2

\* C19: any two consecutive fetches of a call are separated by exactly one
\* sleep of the poll delay: the later one is issued taskPollDelay after the
\* earlier one was answered, also after a successful non-terminal fetch.
C19_OneSleepBetweenFetches ==
    /\ \A i \in 1..(Len(hist) - 1) :
           hist[i + 1].at = hist[i].done + taskPollDelay
    /\ (pc = "fetch" /\ hist # <<>>) =>
           elapsed = Last(hist).done + taskPollDelay

\* C19 witness: a second fetch has been issued one poll delay after a
\* successful fetch that reported CREATING.
C19_Witness ==
    /\ Len(hist) = 2
    /\ ~hist[1].failed /\ hist[1].res.State = sCREATING
    /\ hist[2].at = hist[1].done + 2 * Second

\* The result of a call as a function of its fetches and its id alone.
Outcome(h, i) ==
    LET n == Len(h)
        last == h[n]
        fails == Cardinality({k \in DOMAIN h : h[k].failed})
    IN  IF last.failed /\ fails > 3
        THEN <<last.res, FetchError(n)>>
        ELSE IF last.res # NIL /\ last.res.State \in ErrorSpellings
        THEN <<last.res, StateError(i)>>
        ELSE IF last.res # NIL /\ last.res.State \in ReadySpellings
        THEN <<last.res, IF last.failed THEN FetchError(n) ELSE NIL>>
        ELSE <<last.res, TimeoutError>>

\* C20: the cluster and the error a call returns are a function of the
\* fetch results and clock readings it was given; the steps of the reporter
\* interleaved with it have no part in them.
C20_OutcomeDeterminedByFetches ==
    pc = "returned" => (hist # <<>> /\ <<cluster, err>> = Outcome(hist, id))

\* C20 witness: the second call of a process has returned the ERROR-state
\* error after three fetches, its reporter having run beside it.
C20_Witness ==
    /\ pc = "returned" /\ path = "error" /\ Len(hist) = 3
    /\ calls = 2 /\ rpc = "done"

\* The requests that change the remote system.
MutatingOps == {"CreateCluster", "Resize", "Delete"}

\* C13: a command starts waitForCluster only after its request was submitted
\* and the task poll for it returned without error, and only when
\* wait-for-ready was asked for; when the submit or the task poll fails no
\* wait is started and the command returns that error.
C13_SubmitThenPollThenWait ==
    /\ pc # "idle" =>
           /\ kind \in {"create", "resize"}
           /\ wait_for_ready
           /\ SubmitOp(kind) \in remote
           /\ "getTask" \in remote
           /\ task.pc = "returned" /\ task.res = NIL
           /\ id = target
    /\ "getTask" \in remote => SubmitOp(kind) \in remote
    /\ failedAt \in {"submit", "task"} =>
           /\ pc = "idle" /\ "getCluster" \notin remote
           /\ cerr # NIL /\ cerr.kind \in {"submit", "task"}
           /\ failedAt = "task" => cerr = task.res

\* C13 witness: a resize command is inside its readiness wait, polling.
C13_Witness ==
    /\ kind = "resize" /\ cpc = "waiting" /\ pc = "sleep"
    /\ "getCluster" \in remote /\ "Resize" \in remote

\* C14: a command that fails on an input validation error has sent no
\* request to the remote system.
C14_ValidationBeforeRemote ==
    failedAt = "validate" => remote = {}

\* C15: when a step of a command has failed, the command function returns a
\* non-nil error and the process ends with a non-zero outcome.
C15_ErrorsAreReturned ==
    (cpc \in {"done", "exited"} /\ failedAt # "none") =>
        (cerr # NIL /\ (cpc = "exited" => exitCode # 0))

\* C16: the task poll stops at the first terminal state: no fetch follows a
\* COMPLETED or an ERROR; COMPLETED ends it without error, ERROR with the
\* error that names the task and the state; after a non-terminal state it
\* fetches again only when the delay has passed.
C16_TaskPollStopsAtTerminal ==
    LET h == task.hist IN
    /\ \A i \in 1..(Len(h) - 1) : h[i] \notin {"COMPLETED", "ERROR"}
    /\ (h # <<>> /\ Last(h) = "COMPLETED") =>
           (task.pc = "done" /\ task.res = NIL)
    /\ (h # <<>> /\ Last(h) = "ERROR") =>
           (task.pc = "done"
            /\ task.res = [kind |-> "task", task |-> TaskID, state |-> "ERROR"])
    /\ (h # <<>> /\ Last(h) \in {"QUEUED", "STARTED"}) =>
           task.pc \in {"delay", "fetch"}
    /\ task.pc = "fetch" => task.delays = Len(h)

\* C16 witness: the task poll of a delete command has ended on ERROR after
\* one non-terminal state.
C16_Witness ==
    /\ kind = "delete" /\ task.pc = "done"
    /\ task.hist = <<"QUEUED", "ERROR">> /\ task.delays = 1

\* C18: a mutating request is sent only after the confirmation returned
\* true; declined, the command sends no request of its own, polls no task,
\* starts no wait and returns nil.
C18_NoMutationUnlessConfirmed ==
    /\ remote \cap MutatingOps # {} => answer = "yes"
    /\ answer = "no" =>
           /\ remote \cap (MutatingOps \cup {"getTask", "getCluster"}) = {}
           /\ task.pc = "off" /\ pc = "idle"
           /\ cpc \in {"done", "exited"}
           /\ cerr = NIL /\ failedAt = "none"
           /\ cpc = "exited" => exitCode = 0

\* C18 witness: a create command whose confirmation was declined has ended
\* with outcome 0.
C18_Witness ==
    /\ kind = "create" /\ answer = "no" /\ cpc = "exited" /\ exitCode = 0
    /\ remote = {"getTenant", "getProject"}

\* A wait call is running: it has been entered and has not returned.
InWait == pc \in {"loop", "fetch", "checkErr", "switch", "sleep", "stop", "join"}

\* C21: between the entry to and the return from waitForCluster the only
\* request the process sends to the remote system is the query for the
\* cluster, and every such query names the id the call was given; no create,
\* resize, delete, task or lookup request is sent by the loop or its reporter.
C21_WaitOnlyObserves ==
    [][InWait =>
         /\ remote' \subseteq remote \cup {"getCluster"}
         /\ remote' \cap MutatingOps = remote \cap MutatingOps
         /\ Len(hist') > Len(hist) =>
                /\ "getCluster" \in remote'
                /\ Last(hist').id = id
                /\ id = target
         /\ remote' # remote => Len(hist') = Len(hist) + 1
         /\ id' = id /\ target' = target]_vars

\* C21 witness: a create command is inside its wait for cluster c2, has
\* queried it three times with its reporter running, and the requests of
\* the whole process are the ones sent before the wait plus the query.
C21_Witness ==
    /\ kind = "create" /\ cpc = "waiting" /\ pc = "sleep" /\ rpc = "tick"
    /\ id = "c2" /\ Len(hist) = 3
    /\ \A k \in DOMAIN hist : hist[k].id = "c2"
    /\ remote = {"getTenant", "getProject", "CreateCluster", "getTask",
                 "getCluster"}

====
